---- MODULE Spec2Model ----
(***************************************************************************)
(* Model of the kernel boot-time memory bootstrap of Theseus:              *)
(* kernel/memory_initialization/src/lib.rs, init_memory_management(),      *)
(* and of its real-time clock driver, src/interrupts/rtc.rs.               *)
(*                                                                         *)
(* The function is a straight-line sequence of fallible calls.  Every      *)
(* local of the function is a handle with a disposition:                   *)
(*   "none"      not bound (yet)                                           *)
(*   "owned"     bound and owned by init_memory_management                 *)
(*   "forgotten" passed to core::mem::forget: destroyed WITHOUT its Drop   *)
(*   "dropped"   went out of scope while owned: its Drop ran               *)
(*   "moved"     passed by value to a callee, which now owns it            *)
(*   "returned"  moved into the Ok(...) tuple handed to the caller         *)
(* Dropping a MappedPages (or a Stack, which holds one) unmaps its pages   *)
(* from the page table; `mapped` is the set of regions currently mapped.   *)
(***************************************************************************)
EXTENDS Integers, Sequences, FiniteSets, TLC

VARIABLES
    boot_info,   \* the &BootInformation argument (which layout the bootloader reported)
    pc,          \* position inside init_memory_management
    own,         \* disposition of every local handle
    val,         \* value bound to every local
    mapped,      \* regions mapped in the new page table
    lock,        \* holder of frame_allocator_mutex: "free", "orchestrator" or "other"
    heap,        \* the heap allocator's global state (heap::init_single_heap)
    calls,       \* the external calls made so far, in order, with their outcomes
    result,      \* what init_memory_management returned
    \* --- src/interrupts/rtc.rs ---
    cmos_index,          \* the byte last written to port 0x70 (register select)
    cmos,                \* the contents of the CMOS/RTC registers
    interrupts_enabled,  \* the interrupt flag of the core
    rtc_pc,              \* position of the core's thread inside the driver
    rtc_local,           \* arguments, locals and results of the driver call
    irq_pc,              \* position inside handle_rtc_interrupt ("idle": not running)
    TICKS,               \* the counter handle_rtc_interrupt adds to
    RTC_TICKS,           \* the static RTC_TICKS
    heartbeats,          \* number of "[rtc heartbeat]" lines logged
    irq_done,            \* number of completed invocations of handle_rtc_interrupt
    irq_budget,          \* interrupts that may still arrive
    call_budget          \* driver calls the thread may still make

memVars == <<boot_info, pc, own, val, mapped, lock, heap, calls, result>>

rtcVars == <<cmos_index, cmos, interrupts_enabled, rtc_pc, rtc_local, irq_pc,
             TICKS, RTC_TICKS, heartbeats, irq_done, irq_budget, call_budget>>

vars == <<memVars, rtcVars>>

----------------------------------------------------------------------------
(* Bounds of the model *)

\* number of distinct kernel layouts a Boot Information can describe
NumBootInfos == 2
\* stack page material handed out by memory::init: at most this many pages
MaxStackPages == 2
\* page numbers of the stack material range over 0..MaxPage
MaxPage == 3
\* number of identity-mapped regions memory::init may create
NumIdentity == 2
\* driver calls one thread makes in a run
MaxCalls == 2
\* RTC interrupts that arrive while the thread makes its calls
MaxIrqs == 2
\* RTC interrupts that arrive in a run of the handler alone
MaxTicks == 130

----------------------------------------------------------------------------
(* Configuration constants (kernel_config::memory), as page-granular stand-ins *)

KERNEL_HEAP_START == 64
KERNEL_HEAP_INITIAL_SIZE == 16

----------------------------------------------------------------------------
(* Handles *)

\* every local variable of init_memory_management that owns something
Handles ==
    { "frame_allocator_mutex", "page_table", "text_mapped_pages",
      "rodata_mapped_pages", "data_mapped_pages", "stack_guard_page",
      "stack_pages", "higher_half_mapped_pages", "identity_mapped_pages",
      "stack", "pages", "allocator", "heap_mapped_pages",
      "kernel_mmi_ref", "identity_mapped_pages_out" }

IdentityRegions == { "identity" \o ToString(i) : i \in 1..NumIdentity }

\* The regions a handle unmaps when its Drop runs.  MappedPages and Stack unmap
\* their pages; a page table, a lock reference, a lock guard, an MmiRef and
\* AllocatedPages (reserved but unmapped virtual pages, which is what a guard
\* page is) unmap nothing.
RegionsOf(h, v) ==
    CASE h = "text_mapped_pages"         -> {"text"}
      [] h = "rodata_mapped_pages"       -> {"rodata"}
      [] h = "data_mapped_pages"         -> {"data"}
      [] h = "stack_pages"               -> {"stack"}
      [] h = "stack"                     -> {"stack"}
      [] h = "higher_half_mapped_pages"  -> {"higher_half"}
      [] h = "identity_mapped_pages"     -> v.identity_mapped_pages
      [] h = "identity_mapped_pages_out" -> v.identity_mapped_pages_out
      [] h = "heap_mapped_pages"         -> {"heap"}
      [] OTHER                           -> {}

\* mutant: plain try!(), which forgets nothing
try_plain(o, objs) == o

\* try_forget!(expr, objs...) on the Err arm: core::mem::forget on each obj
try_forget(o, objs) ==
    [h \in Handles |-> IF h \in objs /\ o[h] = "owned" THEN "forgotten" ELSE o[h]]

\* passing handles by value to a callee
MoveOut(o, objs) ==
    [h \in Handles |-> IF h \in objs THEN "moved" ELSE o[h]]

\* binding fresh locals
Bind(o, objs) ==
    [h \in Handles |-> IF h \in objs THEN "owned" ELSE o[h]]

\* `return`: every local still owned goes out of scope and its Drop runs
DropLocals(o) ==
    [h \in Handles |-> IF o[h] = "owned" THEN "dropped" ELSE o[h]]

\* the regions unmapped by the Drops that a `return` in ownership state o runs
UnmappedByDrop(o, v) ==
    UNION { RegionsOf(h, v) : h \in { k \in Handles : o[k] = "owned" } }

\* mutant: the guard is leaked instead of dropped, the lock stays taken
LockAfterDrop_Leak(o, l) == l

\* the lock after the locals of ownership state o went out of scope:
\* dropping the MutexGuard `allocator` unlocks frame_allocator_mutex
LockAfterDrop(o, l) ==
    IF o["allocator"] = "owned" THEN "free" ELSE l

----------------------------------------------------------------------------
(* The real-time clock: ports, registers and the driver's locals *)

\* port 0x70, register select
CMOS_WRITE_PORT == 112
\* port 0x71, register data
CMOS_READ_PORT == 113

\* the CMOS registers the driver touches: seconds, minutes, hours, day, month,
\* year, status A, B, C, and D (selected after a reset of the index)
TimeRegs == {0, 2, 4, 7, 8, 9}
Regs == TimeRegs \cup {10, 11, 12, 13}

\* bit 7 of the select byte is the NMI-disable bit, the rest is the register
SelectedReg(idx) == idx % 128

\* bitwise operations on bytes
RECURSIVE BitOr(_, _)
BitOr(a, b) ==
    IF a = 0 THEN b
    ELSE IF b = 0 THEN a
    ELSE (IF a % 2 = 1 \/ b % 2 = 1 THEN 1 ELSE 0) + 2 * BitOr(a \div 2, b \div 2)

RECURSIVE BitAnd(_, _)
BitAnd(a, b) ==
    IF a = 0 \/ b = 0 THEN 0
    ELSE (IF a % 2 = 1 /\ b % 2 = 1 THEN 1 ELSE 0) + 2 * BitAnd(a \div 2, b \div 2)

\* bit k of byte x
Bit(x, k) == (x \div (2 ^ k)) % 2

\* the locals of a driver call before any call was made
NoRtcLocal ==
    [ op |-> "none", register |-> 0, rate |-> 0, prev |-> 0, bcd |-> 0, out |-> 0,
      is_in_progress |-> FALSE, if_at_call |-> TRUE, read_index |-> 0,
      written |-> 0, written_index |-> 0 ]

\* the clock after power-on, interrupts off, no driver call and no interrupt
RtcQuiet ==
    /\ cmos_index = 13
    /\ cmos = [r \in Regs |-> IF r = 10 THEN 38 ELSE IF r = 11 THEN 2 ELSE 0]
    /\ interrupts_enabled = FALSE
    /\ rtc_pc = "idle"
    /\ rtc_local = NoRtcLocal
    /\ irq_pc = "idle"
    /\ TICKS = 0
    /\ RTC_TICKS = 0
    /\ heartbeats = 0
    /\ irq_done = 0
    /\ irq_budget = 0
    /\ call_budget = 0

----------------------------------------------------------------------------
(* Initial state: the function has been called and nothing has run *)

NoVal ==
    [ text_mapped_pages |-> 0, rodata_mapped_pages |-> 0, data_mapped_pages |-> 0,
      stack_guard_page |-> 0, stack_pages |-> <<>>,
      higher_half_mapped_pages |-> 0, identity_mapped_pages |-> {},
      stack |-> [guard |-> 0, pages |-> <<>>],
      pages |-> [start |-> 0, size |-> 0],
      heap_mapped_pages |-> [start |-> 0, size |-> 0],
      kernel_mmi_ref |-> 0, identity_mapped_pages_out |-> {},
      heap_start |-> 0, heap_initial_size |-> 0 ]

NoBundle ==
    [ kernel_mmi_ref |-> 0, text_mapped_pages |-> 0, rodata_mapped_pages |-> 0,
      data_mapped_pages |-> 0, stack |-> [guard |-> 0, pages |-> <<>>],
      identity_mapped_pages |-> {} ]

NoResult == [returned |-> FALSE, ok |-> FALSE, err |-> "", bundle |-> NoBundle]

Init ==
    /\ boot_info \in 1..NumBootInfos
    /\ pc = "memory_init"
    /\ own = [h \in Handles |-> "none"]
    /\ val = NoVal
    /\ mapped = {}
    /\ lock \in {"free", "other"}
    /\ heap = [active |-> FALSE, start |-> 0, size |-> 0]
    /\ calls = <<>>
    /\ result = NoResult
    /\ RtcQuiet

----------------------------------------------------------------------------
(* The external collaborators, at their interface *)

\* error messages memory::init can return
InitErrors == { "init: out of physical memory", "init: malformed boot information" }

\* error messages memory::allocate_pages_by_bytes_at can return
ReserveErrors == { "reserve: virtual range unavailable" }

\* errors PageTable::map_allocated_pages can return
MapErrors == { "map: out of physical frames", "map: page already mapped" }

\* error messages memory::init_post_heap can return
PostHeapErrors == { "post_heap: cannot create kernel mmi" }

\* the kernel section regions a Boot Information describes (one per layout)
SectionRegion(b, k) == 10 * b + k

\* the stack page material memory::init can hand out: a guard page at one of
\* the two lowest pages and any non-empty list of pages, contiguous or not
StackMaterial ==
    { [guard |-> g, pages |-> p] :
        g \in 0..1,
        p \in UNION { [1..n -> 0..MaxPage] : n \in 1..MaxStackPages } }

\* Stack::from_pages succeeds only if the pages are one contiguous ascending
\* range that starts right above the guard page
Contiguous(g, p) ==
    /\ Len(p) >= 1
    /\ p[1] = g + 1
    /\ \A i \in 1..(Len(p) - 1) : p[i + 1] = p[i] + 1

\* the handles memory::init returns on success
InitHandles ==
    { "frame_allocator_mutex", "page_table", "text_mapped_pages",
      "rodata_mapped_pages", "data_mapped_pages", "stack_guard_page",
      "stack_pages", "higher_half_mapped_pages", "identity_mapped_pages" }

----------------------------------------------------------------------------
(* The statements of init_memory_management *)

\* mutant: the heap is reserved before the stack is constructed
NextPc_ReserveBeforeStack(p) ==
    CASE p = "memory_init"      -> "allocate_pages"
      [] p = "allocate_pages"   -> "from_pages"
      [] p = "from_pages"       -> "lock"
      [] p = "lock"             -> "map"
      [] p = "map"              -> "init_single_heap"
      [] p = "init_single_heap" -> "end_block"
      [] p = "end_block"        -> "init_post_heap"
      [] p = "init_post_heap"   -> "return_ok"
      [] OTHER                  -> "done"

\* mutant: the heap allocator is activated before the heap is mapped
NextPc_ActivateBeforeMap(p) ==
    CASE p = "memory_init"      -> "from_pages"
      [] p = "from_pages"       -> "allocate_pages"
      [] p = "allocate_pages"   -> "lock"
      [] p = "lock"             -> "init_single_heap"
      [] p = "init_single_heap" -> "map"
      [] p = "map"              -> "end_block"
      [] p = "end_block"        -> "init_post_heap"
      [] p = "init_post_heap"   -> "return_ok"
      [] OTHER                  -> "done"

\* mutant: lock() is called a second time after the mapping, while the guard of
\* the first call is still alive
NextPc_LockTwice(p) ==
    CASE p = "memory_init"      -> "from_pages"
      [] p = "from_pages"       -> "allocate_pages"
      [] p = "allocate_pages"   -> "lock"
      [] p = "lock"             -> "map"
      [] p = "map"              -> "lock"
      [] p = "init_single_heap" -> "end_block"
      [] p = "end_block"        -> "init_post_heap"
      [] p = "init_post_heap"   -> "return_ok"
      [] OTHER                  -> "done"

\* the order of the statements on the success path
NextPc(p) ==
    CASE p = "memory_init"      -> "from_pages"
      [] p = "from_pages"       -> "allocate_pages"
      [] p = "allocate_pages"   -> "lock"
      [] p = "lock"             -> "map"
      [] p = "map"              -> "init_single_heap"
      [] p = "init_single_heap" -> "end_block"
      [] p = "end_block"        -> "init_post_heap"
      [] p = "init_post_heap"   -> "return_ok"
      [] OTHER                  -> "done"

\* mutant: the identity regions are left out of the forget list
StackForgetList_NoIdentity ==
    { "text_mapped_pages", "rodata_mapped_pages", "data_mapped_pages",
      "stack_pages", "higher_half_mapped_pages" }

\* mutant: the stack pages handed back are left out of the forget list
StackForgetList_NoStackPages ==
    { "text_mapped_pages", "rodata_mapped_pages", "data_mapped_pages",
      "higher_half_mapped_pages", "identity_mapped_pages" }

\* the objects given to try_forget! when Stack::from_pages fails
StackForgetList ==
    { "text_mapped_pages", "rodata_mapped_pages", "data_mapped_pages",
      "stack_pages", "higher_half_mapped_pages", "identity_mapped_pages" }

\* mutant: the stack is left out of the forget list
HeapForgetList_NoStack ==
    { "text_mapped_pages", "rodata_mapped_pages", "data_mapped_pages",
      "higher_half_mapped_pages", "identity_mapped_pages" }

\* mutant: the page table is forgotten as well
HeapForgetList_WithPageTable ==
    { "text_mapped_pages", "rodata_mapped_pages", "data_mapped_pages",
      "stack", "higher_half_mapped_pages", "identity_mapped_pages", "page_table" }

\* the objects given to try_forget! when reserving or mapping the heap fails
HeapForgetList ==
    { "text_mapped_pages", "rodata_mapped_pages", "data_mapped_pages",
      "stack", "higher_half_mapped_pages", "identity_mapped_pages" }

\* mutant: the mapping error is passed through
HeapMapErr_Passthrough(e) == e

\* the closure given to map_err: every mapping error becomes one fixed message
HeapMapErr(e) ==
    "Failed to map the kernel heap memory. Perhaps the KERNEL_HEAP_INITIAL_SIZE exceeds the size of the system's physical memory?"

\* mutant: the stack failure reports the heap mapping message
StackErr_HeapMessage == HeapMapErr("")

\* the error of a failed stack construction
StackErr == "initial Stack was not contiguous in virtual memory"

\* mutant: the identity list of memory::init is returned, not the finalizer's
SuccessBundle_InitIdentity(v) ==
    [ kernel_mmi_ref        |-> v.kernel_mmi_ref,
      text_mapped_pages     |-> v.text_mapped_pages,
      rodata_mapped_pages   |-> v.rodata_mapped_pages,
      data_mapped_pages     |-> v.data_mapped_pages,
      stack                 |-> v.stack,
      identity_mapped_pages |-> v.identity_mapped_pages ]

\* the tuple of the final Ok(...)
SuccessBundle(v) ==
    [ kernel_mmi_ref        |-> v.kernel_mmi_ref,
      text_mapped_pages     |-> v.text_mapped_pages,
      rodata_mapped_pages   |-> v.rodata_mapped_pages,
      data_mapped_pages     |-> v.data_mapped_pages,
      stack                 |-> v.stack,
      identity_mapped_pages |-> v.identity_mapped_pages_out ]

\* the call log after a call of fn with the (numeric) arguments args
CalledWith(fn, args, ok, err) ==
    Append(calls, [fn |-> fn, args |-> args, ok |-> ok, err |-> err])

Called(fn, ok, err) == CalledWith(fn, <<>>, ok, err)

\* the arguments of memory::allocate_pages_by_bytes_at
HeapReserveArgs(v) == <<v.heap_start, v.heap_initial_size>>

\* mutant: start and size are passed in the wrong order
HeapInitArgs_Swapped(v) == <<v.heap_initial_size, v.heap_start>>

\* the arguments of heap::init_single_heap
HeapInitArgs(v) == <<v.heap_start, v.heap_initial_size>>

\* `return Err(e)` in ownership state o, with m the regions mapped at that point:
\* the locals still owned are dropped, which unmaps what they map and unlocks
\* what they lock
ReturnErr(o, m, e) ==
    /\ own' = DropLocals(o)
    /\ mapped' = m \ UnmappedByDrop(o, val)
    /\ lock' = LockAfterDrop(o, lock)
    /\ result' = [returned |-> TRUE, ok |-> FALSE, err |-> e, bundle |-> NoBundle]
    /\ pc' = "done"

\* let (...) = memory::init(&boot_info)?;
MemoryInit ==
    /\ pc = "memory_init"
    /\ UNCHANGED rtcVars
    /\ \/ \E sm \in StackMaterial, ids \in SUBSET IdentityRegions :
            /\ own' = Bind(own, InitHandles)
            /\ val' = [val EXCEPT
                    !.text_mapped_pages = SectionRegion(boot_info, 1),
                    !.rodata_mapped_pages = SectionRegion(boot_info, 2),
                    !.data_mapped_pages = SectionRegion(boot_info, 3),
                    !.higher_half_mapped_pages = SectionRegion(boot_info, 4),
                    !.stack_guard_page = sm.guard,
                    !.stack_pages = sm.pages,
                    !.identity_mapped_pages = ids]
            /\ mapped' = {"text", "rodata", "data", "stack", "higher_half"} \cup ids
            /\ calls' = Called("memory::init", TRUE, "")
            /\ pc' = NextPc(pc)
            /\ UNCHANGED <<lock, result>>
       \/ \E e \in InitErrors :
            /\ calls' = Called("memory::init", FALSE, e)
            /\ ReturnErr(own, mapped, e)
            /\ UNCHANGED val
    /\ UNCHANGED <<boot_info, heap>>

\* let stack = match Stack::from_pages(stack_guard_page, stack_pages) { ... };
StackFromPages ==
    /\ pc = "from_pages"
    /\ UNCHANGED rtcVars
    /\ IF Contiguous(val.stack_guard_page, val.stack_pages)
       THEN /\ own' = Bind(MoveOut(own, {"stack_guard_page", "stack_pages"}), {"stack"})
            /\ val' = [val EXCEPT !.stack =
                    [guard |-> val.stack_guard_page, pages |-> val.stack_pages]]
            /\ calls' = Called("Stack::from_pages", TRUE, "")
            /\ pc' = NextPc(pc)
            /\ UNCHANGED <<mapped, lock, result>>
       ELSE \* the Err hands both arguments back: _stack_guard_page and stack_pages
            /\ calls' = Called("Stack::from_pages", FALSE, "")
            /\ ReturnErr(try_forget(own, StackForgetList), mapped, StackErr)
            /\ UNCHANGED val
    /\ UNCHANGED <<boot_info, heap>>

\* let heap_start = KERNEL_HEAP_START;
\* let heap_initial_size = KERNEL_HEAP_INITIAL_SIZE;
\* let pages = try_forget!(memory::allocate_pages_by_bytes_at(...), ...);
\* On success the pages returned are the range that was asked for.
AllocatePages ==
    /\ pc = "allocate_pages"
    /\ UNCHANGED rtcVars
    /\ LET v == [val EXCEPT !.heap_start = KERNEL_HEAP_START,
                            !.heap_initial_size = KERNEL_HEAP_INITIAL_SIZE]
       IN \/ /\ own' = Bind(own, {"pages"})
             /\ val' = [v EXCEPT !.pages =
                     [start |-> HeapReserveArgs(v)[1], size |-> HeapReserveArgs(v)[2]]]
             /\ calls' = CalledWith("memory::allocate_pages_by_bytes_at",
                                    HeapReserveArgs(v), TRUE, "")
             /\ pc' = NextPc(pc)
             /\ UNCHANGED <<mapped, lock, result>>
          \/ \E e \in ReserveErrors :
             /\ calls' = CalledWith("memory::allocate_pages_by_bytes_at",
                                    HeapReserveArgs(v), FALSE, e)
             /\ ReturnErr(try_forget(own, HeapForgetList), mapped, e)
             /\ val' = v
    /\ UNCHANGED <<boot_info, heap>>

\* let mut allocator = frame_allocator_mutex.lock();   (a spin lock)
LockFrameAllocator ==
    /\ pc = "lock"
    /\ UNCHANGED rtcVars
    /\ lock = "free"
    /\ lock' = "orchestrator"
    /\ own' = Bind(own, {"allocator"})
    /\ pc' = NextPc(pc)
    /\ UNCHANGED <<boot_info, val, mapped, heap, calls, result>>

\* let heap_mp = try_forget!(page_table.map_allocated_pages(pages, ...).map_err(...), ...);
MapAllocatedPages ==
    /\ pc = "map"
    /\ UNCHANGED rtcVars
    /\ \/ /\ own' = Bind(MoveOut(own, {"pages"}), {"heap_mapped_pages"})
          /\ val' = [val EXCEPT !.heap_mapped_pages = val.pages]
          /\ mapped' = mapped \cup {"heap"}
          /\ calls' = Called("PageTable::map_allocated_pages", TRUE, "")
          /\ pc' = NextPc(pc)
          /\ UNCHANGED <<lock, result>>
       \/ \E e \in MapErrors :
          /\ calls' = Called("PageTable::map_allocated_pages", FALSE, e)
          /\ ReturnErr(try_forget(MoveOut(own, {"pages"}), HeapForgetList),
                       mapped, HeapMapErr(e))
          /\ UNCHANGED val
    /\ UNCHANGED <<boot_info, heap>>

\* heap::init_single_heap(heap_start, heap_initial_size);
InitSingleHeap ==
    /\ pc = "init_single_heap"
    /\ UNCHANGED rtcVars
    /\ heap' = [active |-> TRUE, start |-> HeapInitArgs(val)[1],
                size |-> HeapInitArgs(val)[2]]
    /\ calls' = CalledWith("heap::init_single_heap", HeapInitArgs(val), TRUE, "")
    /\ pc' = NextPc(pc)
    /\ UNCHANGED <<boot_info, own, val, mapped, lock, result>>

\* heap_mp };   the block ends and `allocator` goes out of scope
EndHeapBlock ==
    /\ pc = "end_block"
    /\ UNCHANGED rtcVars
    /\ own' = [own EXCEPT !["allocator"] =
                 IF own["allocator"] = "owned" THEN "dropped" ELSE @]
    /\ lock' = LockAfterDrop(own, lock)
    /\ pc' = NextPc(pc)
    /\ UNCHANGED <<boot_info, val, mapped, heap, calls, result>>

\* the handles passed by value to memory::init_post_heap
PostHeapArgs ==
    { "page_table", "higher_half_mapped_pages", "identity_mapped_pages",
      "heap_mapped_pages" }

\* the regions owned by the handles passed to memory::init_post_heap
PostHeapRegions ==
    UNION { RegionsOf(h, val) : h \in { k \in PostHeapArgs : own[k] = "owned" } }

\* let (kernel_mmi_ref, identity_mapped_pages) = memory::init_post_heap(...)?;
\* The finalizer owns what it was given: it hands back any part of the identity
\* list, and may unmap what it does not hand back; when it fails it may unmap
\* any part of what it was given.
InitPostHeap ==
    /\ pc = "init_post_heap"
    /\ UNCHANGED rtcVars
    /\ \/ \E mmi \in {1, 2}, out \in SUBSET val.identity_mapped_pages :
          \E gone \in SUBSET (val.identity_mapped_pages \ out) :
            /\ own' = Bind(MoveOut(own, PostHeapArgs),
                           {"kernel_mmi_ref", "identity_mapped_pages_out"})
            /\ val' = [val EXCEPT !.kernel_mmi_ref = mmi,
                                  !.identity_mapped_pages_out = out]
            /\ mapped' = mapped \ gone
            /\ calls' = Called("memory::init_post_heap", TRUE, "")
            /\ pc' = NextPc(pc)
            /\ UNCHANGED <<lock, result>>
       \/ \E e \in PostHeapErrors, gone \in SUBSET PostHeapRegions :
            /\ calls' = Called("memory::init_post_heap", FALSE, e)
            /\ ReturnErr(MoveOut(own, PostHeapArgs), mapped \ gone, e)
            /\ UNCHANGED val
    /\ UNCHANGED <<boot_info, heap>>

\* the locals moved into the final Ok(...)
ReturnedHandles ==
    { "kernel_mmi_ref", "text_mapped_pages", "rodata_mapped_pages",
      "data_mapped_pages", "stack", "identity_mapped_pages_out" }

\* Ok((kernel_mmi_ref, text_mapped_pages, rodata_mapped_pages, data_mapped_pages,
\*     stack, identity_mapped_pages))
ReturnOk ==
    /\ pc = "return_ok"
    /\ UNCHANGED rtcVars
    /\ LET o == [h \in Handles |->
                   IF h \in ReturnedHandles /\ own[h] = "owned" THEN "returned"
                   ELSE own[h]]
       IN  /\ own' = DropLocals(o)
           /\ mapped' = mapped \ UnmappedByDrop(o, val)
           /\ lock' = LockAfterDrop(o, lock)
    /\ result' = [returned |-> TRUE, ok |-> TRUE, err |-> "",
                  bundle |-> SuccessBundle(val)]
    /\ pc' = "done"
    /\ UNCHANGED <<boot_info, val, heap, calls>>

\* another core takes the frame allocator lock
OtherLock ==
    /\ lock = "free"
    /\ UNCHANGED rtcVars
    /\ lock' = "other"
    /\ UNCHANGED <<boot_info, pc, own, val, mapped, heap, calls, result>>

\* another core releases the frame allocator lock
OtherUnlock ==
    /\ lock = "other"
    /\ UNCHANGED rtcVars
    /\ lock' = "free"
    /\ UNCHANGED <<boot_info, pc, own, val, mapped, heap, calls, result>>

Next ==
    \/ MemoryInit
    \/ StackFromPages
    \/ AllocatePages
    \/ LockFrameAllocator
    \/ MapAllocatedPages
    \/ InitSingleHeap
    \/ EndHeapBlock
    \/ InitPostHeap
    \/ ReturnOk
    \/ OtherLock
    \/ OtherUnlock

Spec == Init /\ [][Next]_vars

\* the statements of init_memory_management: the boot processor runs them one
\* after the other without suspension
OrchestratorNext ==
    \/ MemoryInit
    \/ StackFromPages
    \/ AllocatePages
    \/ LockFrameAllocator
    \/ MapAllocatedPages
    \/ InitSingleHeap
    \/ EndHeapBlock
    \/ InitPostHeap
    \/ ReturnOk

\* The boot processor keeps executing and every callee returns (weak fairness of
\* each statement); another core that holds the frame allocator lock releases
\* it, and the spinning lock() gets the lock if it is free again and again
\* (strong fairness of the acquisition).
FairSpec ==
    /\ Spec
    /\ WF_vars(OrchestratorNext)
    /\ WF_vars(OtherUnlock)
    /\ SF_vars(LockFrameAllocator)

----------------------------------------------------------------------------
(* src/interrupts/rtc.rs: the hardware behind the two ports *)

\* contents of status register A: the usual default, the value 1 that
\* get_update_in_progress tests for, and the default with bit 7 set
RegASamples == {38, 1, 166}
\* contents of status register B: periodic interrupt (bit 6) off and on
RegBSamples == {2, 66}
\* contents of status register C: no flag, periodic interrupt flagged
RegCSamples == {0, 192}
\* two BCD-encoded times of day
ClockSamples ==
    { (0 :> 89 @@ 2 :> 48 @@ 4 :> 18 @@ 7 :> 5 @@ 8 :> 17 @@ 9 :> 38),
      (0 :> 7  @@ 2 :> 21 @@ 4 :> 35 @@ 7 :> 40 @@ 8 :> 9  @@ 9 :> 153) }
\* rates given to change_rtc_frequency: inside and outside 3..15
RateSamples == {3, 15, 16, 255}

\* the byte a read of port 0x71 returns
DataPort == cmos[SelectedReg(cmos_index)]

\* After an access to port 0x71 the selection may or may not still stand (the
\* driver re-selects because "it was reset when read"); reading status register
\* C clears it.
AfterDataRead ==
    /\ cmos' = IF SelectedReg(cmos_index) = 12 THEN [cmos EXCEPT ![12] = 0] ELSE cmos
    /\ cmos_index' \in {cmos_index, 13}

\* a write of byte v to port 0x71: registers C and D are read-only
AfterDataWrite(v) ==
    /\ cmos' = IF SelectedReg(cmos_index) \in {12, 13} THEN cmos
               ELSE [cmos EXCEPT ![SelectedReg(cmos_index)] = v]
    /\ cmos_index' \in {cmos_index, 13}

\* fn write_cmos(value): CMOS_WRITE is locked for this one port write
write_cmos(value) ==
    /\ cmos_index' = value
    /\ UNCHANGED cmos

\* (bcd/16)*10 + (bcd & 0xf)
BcdToBinary(bcd) == (bcd \div 16) * 10 + BitAnd(bcd, 15)

\* mutant: register B is overwritten with bit 6 alone
EnableByte_Overwrite(prev) == 64

\* prev | 0x40
EnableByte(prev) == BitOr(prev, 64)

\* ((prev & 0xF0)|rate)
FrequencyByte(prev, rate) == BitOr(BitAnd(prev, 240), rate)

----------------------------------------------------------------------------
(* src/interrupts/rtc.rs: the driver calls of the core's thread.  The thread
   runs only while no interrupt handler is running on the core. *)

ThreadRuns == irq_pc = "idle"

handlerVars == <<irq_pc, TICKS, RTC_TICKS, heartbeats, irq_done, irq_budget>>

\* the thread moves to statement p with locals l
Goto(p, l) ==
    /\ rtc_pc' = p
    /\ rtc_local' = l
    /\ UNCHANGED <<memVars, handlerVars, call_budget>>

\* a call of op by the thread
Call(op, firstpc, register, rate) ==
    /\ rtc_pc = "idle"
    /\ ThreadRuns
    /\ call_budget > 0
    /\ call_budget' = call_budget - 1
    /\ rtc_pc' = firstpc
    /\ rtc_local' = [NoRtcLocal EXCEPT !.op = op, !.register = register,
                                       !.rate = rate,
                                       !.if_at_call = interrupts_enabled]
    /\ UNCHANGED <<memVars, handlerVars, cmos_index, cmos, interrupts_enabled>>

\* read_rtc: read_register(0x00), (0x02), (0x04), (0x07), (0x08), (0x09)
CallReadRegister ==
    \E r \in TimeRegs : Call("read_register", "rr_select_a", r, 0)

CallEnableRtcInterrupt ==
    Call("enable_rtc_interrupt", "en_disable", 0, 0)

CallChangeRtcFrequency ==
    \E rate \in RateSamples : Call("change_rtc_frequency", "cf_disable", 0, rate)

\* get_update_in_progress: write_cmos(0x0A);
RR_SelectA ==
    /\ rtc_pc = "rr_select_a" /\ ThreadRuns
    /\ write_cmos(10)
    /\ Goto("rr_read_a", rtc_local)
    /\ UNCHANGED interrupts_enabled

\* let is_in_progress: bool = read_cmos() == 1;   while get_update_in_progress() {}
RR_ReadA ==
    /\ rtc_pc = "rr_read_a" /\ ThreadRuns
    /\ AfterDataRead
    /\ Goto(IF DataPort = 1 THEN "rr_select_a" ELSE "rr_select",
            [rtc_local EXCEPT !.is_in_progress = (DataPort = 1)])
    /\ UNCHANGED interrupts_enabled

\* write_cmos(register);
RR_Select ==
    /\ rtc_pc = "rr_select" /\ ThreadRuns
    /\ write_cmos(rtc_local.register)
    /\ Goto("rr_read", rtc_local)
    /\ UNCHANGED interrupts_enabled

\* let bcd = read_cmos();  (bcd/16)*10 + (bcd & 0xf)
RR_Read ==
    /\ rtc_pc = "rr_read" /\ ThreadRuns
    /\ AfterDataRead
    /\ Goto("ret", [rtc_local EXCEPT !.bcd = DataPort,
                                     !.out = BcdToBinary(DataPort),
                                     !.read_index = SelectedReg(cmos_index)])
    /\ UNCHANGED interrupts_enabled

\* disable_interrupts();   (first statement of enable_rtc_interrupt)
EN_Disable ==
    /\ rtc_pc = "en_disable" /\ ThreadRuns
    /\ interrupts_enabled' = FALSE
    /\ Goto("en_select_c", rtc_local)
    /\ UNCHANGED <<cmos_index, cmos>>

\* write_cmos(0x0C);
EN_SelectC ==
    /\ rtc_pc = "en_select_c" /\ ThreadRuns
    /\ write_cmos(12)
    /\ Goto("en_read_c", rtc_local)
    /\ UNCHANGED interrupts_enabled

\* read_cmos();
EN_ReadC ==
    /\ rtc_pc = "en_read_c" /\ ThreadRuns
    /\ AfterDataRead
    /\ Goto("en_select_b", rtc_local)
    /\ UNCHANGED interrupts_enabled

\* write_cmos(0x8B);
EN_SelectB ==
    /\ rtc_pc = "en_select_b" /\ ThreadRuns
    /\ write_cmos(139)
    /\ Goto("en_read_b", rtc_local)
    /\ UNCHANGED interrupts_enabled

\* let prev = read_cmos();
EN_ReadB ==
    /\ rtc_pc = "en_read_b" /\ ThreadRuns
    /\ AfterDataRead
    /\ Goto("en_select_b2", [rtc_local EXCEPT !.prev = DataPort,
                                              !.read_index = SelectedReg(cmos_index)])
    /\ UNCHANGED interrupts_enabled

\* write_cmos(0x8B);
EN_SelectB2 ==
    /\ rtc_pc = "en_select_b2" /\ ThreadRuns
    /\ write_cmos(139)
    /\ Goto("en_write", rtc_local)
    /\ UNCHANGED interrupts_enabled

\* unsafe{CMOS_WRITE_SETTINGS.lock().write(prev | 0x40)};
EN_Write ==
    /\ rtc_pc = "en_write" /\ ThreadRuns
    /\ AfterDataWrite(EnableByte(rtc_local.prev))
    /\ Goto("en_enable", [rtc_local EXCEPT !.written = EnableByte(rtc_local.prev),
                                           !.written_index = SelectedReg(cmos_index)])
    /\ UNCHANGED interrupts_enabled

\* enable_interrupts();   and the function returns
EN_Enable ==
    /\ rtc_pc = "en_enable" /\ ThreadRuns
    /\ interrupts_enabled' = TRUE
    /\ Goto("ret", rtc_local)
    /\ UNCHANGED <<cmos_index, cmos>>

\* disable_interrupts();   (first statement of change_rtc_frequency)
CF_Disable ==
    /\ rtc_pc = "cf_disable" /\ ThreadRuns
    /\ interrupts_enabled' = FALSE
    /\ Goto("cf_select_a", rtc_local)
    /\ UNCHANGED <<cmos_index, cmos>>

\* write_cmos(0x8A);
CF_SelectA ==
    /\ rtc_pc = "cf_select_a" /\ ThreadRuns
    /\ write_cmos(138)
    /\ Goto("cf_read_a", rtc_local)
    /\ UNCHANGED interrupts_enabled

\* let prev = read_cmos();
CF_ReadA ==
    /\ rtc_pc = "cf_read_a" /\ ThreadRuns
    /\ AfterDataRead
    /\ Goto("cf_select_a2", [rtc_local EXCEPT !.prev = DataPort,
                                              !.read_index = SelectedReg(cmos_index)])
    /\ UNCHANGED interrupts_enabled

\* write_cmos(0x8A);
CF_SelectA2 ==
    /\ rtc_pc = "cf_select_a2" /\ ThreadRuns
    /\ write_cmos(138)
    /\ Goto("cf_write", rtc_local)
    /\ UNCHANGED interrupts_enabled

\* unsafe{CMOS_WRITE_SETTINGS.lock().write(((prev & 0xF0)|rate))};
CF_Write ==
    /\ rtc_pc = "cf_write" /\ ThreadRuns
    /\ AfterDataWrite(FrequencyByte(rtc_local.prev, rtc_local.rate))
    /\ Goto("cf_enable",
            [rtc_local EXCEPT !.written = FrequencyByte(rtc_local.prev, rtc_local.rate),
                              !.written_index = SelectedReg(cmos_index)])
    /\ UNCHANGED interrupts_enabled

\* enable_interrupts();   and the function returns
CF_Enable ==
    /\ rtc_pc = "cf_enable" /\ ThreadRuns
    /\ interrupts_enabled' = TRUE
    /\ Goto("ret", rtc_local)
    /\ UNCHANGED <<cmos_index, cmos>>

\* the caller goes on after the call returned
Return ==
    /\ rtc_pc = "ret" /\ ThreadRuns
    /\ Goto("idle", rtc_local)
    /\ UNCHANGED <<cmos_index, cmos, interrupts_enabled>>

----------------------------------------------------------------------------
(* src/interrupts/rtc.rs: handle_rtc_interrupt.  IRQ 8 is delivered when the
   core's interrupts are enabled and the periodic interrupt (bit 6 of status
   register B) is on; the handler then runs to its end before the thread it
   interrupted goes on. *)

\* write_cmos(0x0C);   (the interrupt arrives and the handler starts)
IRQ_Select ==
    /\ irq_pc = "idle"
    /\ interrupts_enabled
    /\ Bit(cmos[11], 6) = 1
    /\ irq_budget > 0
    /\ irq_budget' = irq_budget - 1
    /\ write_cmos(12)
    /\ irq_pc' = "read"
    /\ UNCHANGED <<memVars, interrupts_enabled, rtc_pc, rtc_local, TICKS, RTC_TICKS,
                   heartbeats, irq_done, call_budget>>

\* read_cmos();
IRQ_Read ==
    /\ irq_pc = "read"
    /\ AfterDataRead
    /\ irq_pc' = "count"
    /\ UNCHANGED <<memVars, interrupts_enabled, rtc_pc, rtc_local, TICKS, RTC_TICKS,
                   heartbeats, irq_done, irq_budget, call_budget>>

\* let old_tick = TICKS.fetch_add(1,Ordering::SeqCst);  let rtc_ticks = old_tick +1;
\* if (rtc_ticks % 128) == 0 { trace!("[rtc heartbeat] ...") }
\* (the counter stays far below the word size within the budget of interrupts)
IRQ_Count ==
    /\ irq_pc = "count"
    /\ TICKS' = TICKS + 1
    /\ heartbeats' = IF (TICKS + 1) % 128 = 0 THEN heartbeats + 1 ELSE heartbeats
    /\ irq_done' = irq_done + 1
    /\ irq_pc' = "idle"
    /\ UNCHANGED <<memVars, cmos_index, cmos, interrupts_enabled, rtc_pc, rtc_local,
                   RTC_TICKS, irq_budget, call_budget>>

HandlerNext ==
    \/ IRQ_Select
    \/ IRQ_Read
    \/ IRQ_Count

\* init_memory_management not running
MemQuiet ==
    /\ boot_info = 1
    /\ pc = "memory_init"
    /\ own = [h \in Handles |-> "none"]
    /\ val = NoVal
    /\ mapped = {}
    /\ lock = "free"
    /\ heap = [active |-> FALSE, start |-> 0, size |-> 0]
    /\ calls = <<>>
    /\ result = NoResult

\* a thread about to call the driver, on any state of the clock
InitRtc ==
    /\ MemQuiet
    /\ \E a \in RegASamples, b \in RegBSamples, c \in RegCSamples, clk \in ClockSamples :
          cmos = [r \in Regs |->
                    IF r \in TimeRegs THEN clk[r]
                    ELSE IF r = 10 THEN a
                    ELSE IF r = 11 THEN b
                    ELSE IF r = 12 THEN c
                    ELSE 0]
    /\ cmos_index = 13
    /\ interrupts_enabled \in BOOLEAN
    /\ rtc_pc = "idle"
    /\ rtc_local = NoRtcLocal
    /\ irq_pc = "idle"
    /\ TICKS = 0
    /\ RTC_TICKS = 0
    /\ heartbeats = 0
    /\ irq_done = 0
    /\ irq_budget = MaxIrqs
    /\ call_budget = MaxCalls

NextRtc ==
    \/ CallReadRegister
    \/ CallEnableRtcInterrupt
    \/ CallChangeRtcFrequency
    \/ RR_SelectA
    \/ RR_ReadA
    \/ RR_Select
    \/ RR_Read
    \/ EN_Disable
    \/ EN_SelectC
    \/ EN_ReadC
    \/ EN_SelectB
    \/ EN_ReadB
    \/ EN_SelectB2
    \/ EN_Write
    \/ EN_Enable
    \/ CF_Disable
    \/ CF_SelectA
    \/ CF_ReadA
    \/ CF_SelectA2
    \/ CF_Write
    \/ CF_Enable
    \/ Return
    \/ IRQ_Select
    \/ IRQ_Read
    \/ IRQ_Count

SpecRtc == InitRtc /\ [][NextRtc]_vars

\* the periodic interrupt is on and only the handler runs
InitTicks ==
    /\ MemQuiet
    /\ \E clk \in ClockSamples :
          cmos = [r \in Regs |->
                    IF r \in TimeRegs THEN clk[r]
                    ELSE IF r = 10 THEN 38
                    ELSE IF r = 11 THEN 66
                    ELSE 0]
    /\ cmos_index = 13
    /\ interrupts_enabled = TRUE
    /\ rtc_pc = "idle"
    /\ rtc_local = NoRtcLocal
    /\ irq_pc = "idle"
    /\ TICKS = 0
    /\ RTC_TICKS = 0
    /\ heartbeats = 0
    /\ irq_done = 0
    /\ irq_budget = MaxTicks
    /\ call_budget = 0

SpecTicks == InitTicks /\ [][HandlerNext]_vars

----------------------------------------------------------------------------
(* Vocabulary of the properties *)

\* the six steps of the orchestration, in order
StepOrder ==
    << "memory::init", "Stack::from_pages", "memory::allocate_pages_by_bytes_at",
       "PageTable::map_allocated_pages", "heap::init_single_heap",
       "memory::init_post_heap" >>

\* init_memory_management returned an error
ErrReturned == result.returned /\ ~result.ok

\* the step whose failure ended the run ("" if none failed)
FailedStep ==
    IF calls # <<>> /\ ~calls[Len(calls)].ok THEN calls[Len(calls)].fn ELSE ""

\* the error the failed step itself reported
FailedErr ==
    IF calls # <<>> /\ ~calls[Len(calls)].ok THEN calls[Len(calls)].err ELSE ""

\* step fn was invoked and succeeded
Succeeded(fn) == \E i \in 1..Len(calls) : calls[i].fn = fn /\ calls[i].ok

\* the failure was at step 2, 3 or 4
EarlyFailure ==
    ErrReturned /\ FailedStep \in { StepOrder[2], StepOrder[3], StepOrder[4] }

----------------------------------------------------------------------------
(* Properties *)

\* C1: when step 2, 3 or 4 fails, the text, rodata, data and higher-half regions
\* obtained in step 1 are forgotten, not dropped, and are still mapped in the
\* state in which the error is returned.
C1_Step1RegionsSurviveEarlyFailure ==
    EarlyFailure =>
        /\ \A h \in { "text_mapped_pages", "rodata_mapped_pages",
                      "data_mapped_pages", "higher_half_mapped_pages" } :
              own[h] = "forgotten"
        /\ {"text", "rodata", "data", "higher_half"} \subseteq mapped

C1_Witness ==
    /\ ErrReturned
    /\ FailedStep = StepOrder[2]
    /\ own["text_mapped_pages"] = "forgotten"
    /\ "higher_half" \in mapped

\* C2: no failure of any step runs the unmap side effect of a region backing
\* running code, the active stack or the page table's storage; in particular the
\* text, rodata and data regions and the Initial Stack are not unmapped when the
\* Post-Heap Finalizer fails.
C2_NoCriticalUnmapOnAnyFailure ==
    ErrReturned =>
        \A h \in { "text_mapped_pages", "rodata_mapped_pages", "data_mapped_pages",
                   "stack", "stack_pages", "higher_half_mapped_pages" } :
            own[h] # "dropped"

\* C3: when heap reservation or heap mapping fails, the Initial Stack built in
\* step 2 is forgotten together with the step-1 regions, and the stack's region
\* is still mapped when the error is returned.
C3_StackSurvivesHeapFailure ==
    (ErrReturned /\ FailedStep \in { StepOrder[3], StepOrder[4] }) =>
        /\ \A h \in { "stack", "text_mapped_pages", "rodata_mapped_pages",
                      "data_mapped_pages", "higher_half_mapped_pages",
                      "identity_mapped_pages" } :
              own[h] = "forgotten"
        /\ "stack" \in mapped

C3_Witness ==
    /\ ErrReturned
    /\ FailedStep = StepOrder[3]
    /\ own["stack"] = "forgotten"
    /\ "stack" \in mapped

\* C4: all or nothing.  The success bundle is returned exactly when steps 1, 2,
\* 3, 4 and 6 all succeeded; an error carries no bundle.  The bundle holds the
\* finalizer's handle, the text/rodata/data regions of step 1 (returned by the
\* orchestrator itself, never moved to the finalizer), the stack of step 2 and
\* the identity list the finalizer handed back.
C4_AllOrNothing ==
    result.returned =>
        /\ result.ok <=> \A i \in {1, 2, 3, 4, 6} : Succeeded(StepOrder[i])
        /\ ~result.ok => result.bundle = NoBundle
        /\ result.ok =>
            /\ result.bundle.kernel_mmi_ref = val.kernel_mmi_ref
            /\ result.bundle.text_mapped_pages = SectionRegion(boot_info, 1)
            /\ result.bundle.rodata_mapped_pages = SectionRegion(boot_info, 2)
            /\ result.bundle.data_mapped_pages = SectionRegion(boot_info, 3)
            /\ result.bundle.stack =
                   [guard |-> val.stack_guard_page, pages |-> val.stack_pages]
            /\ result.bundle.identity_mapped_pages = val.identity_mapped_pages_out
            /\ \A h \in ReturnedHandles : own[h] = "returned"

C4_Witness ==
    /\ result.returned
    /\ result.ok
    /\ result.bundle.identity_mapped_pages # val.identity_mapped_pages
    /\ result.bundle.kernel_mmi_ref = 2

\* the errors each fallible step can make init_memory_management return
ErrorsOfStep(fn) ==
    CASE fn = StepOrder[1] -> InitErrors
      [] fn = StepOrder[2] -> {StackErr}
      [] fn = StepOrder[3] -> ReserveErrors
      [] fn = StepOrder[4] -> {HeapMapErr("")}
      [] fn = StepOrder[6] -> PostHeapErrors
      [] OTHER             -> {}

\* C5: the error returned is that of the first failing step: the error of
\* memory::init, of the heap reservation and of the finalizer are passed on
\* unchanged, a stack failure gives the fixed StackNotContiguous message and a
\* mapping failure the fixed HeapMappingFailed message whatever the mapping
\* error was; no step's error is reported for another step.
C5_ErrorOfFailingStep ==
    ErrReturned =>
        /\ FailedStep \in { StepOrder[i] : i \in {1, 2, 3, 4, 6} }
        /\ result.err =
             ( CASE FailedStep = StepOrder[2] -> StackErr
                 [] FailedStep = StepOrder[4] ->
                      "Failed to map the kernel heap memory. Perhaps the KERNEL_HEAP_INITIAL_SIZE exceeds the size of the system's physical memory?"
                 [] OTHER -> FailedErr )
        /\ \A i \in {1, 2, 3, 4, 6} :
             result.err \in ErrorsOfStep(StepOrder[i]) => FailedStep = StepOrder[i]

C5_Witness ==
    /\ ErrReturned
    /\ FailedStep = StepOrder[4]
    /\ FailedErr = "map: out of physical frames"
    /\ result.err # FailedErr

\* C6: the steps run in the order init, stack construction, heap reservation,
\* heap mapping, allocator activation, finalizer; each at most once, each only
\* after all earlier ones succeeded, so nothing is invoked after a failure.
C6_StrictStepOrder ==
    /\ Len(calls) <= Len(StepOrder)
    /\ \A i \in 1..Len(calls) : calls[i].fn = StepOrder[i]
    /\ \A i \in 1..(Len(calls) - 1) : calls[i].ok
    /\ result.returned => (result.ok <=> Len(calls) = Len(StepOrder) /\ calls[Len(calls)].ok)

C6_Witness ==
    /\ Len(calls) = Len(StepOrder)
    /\ ~calls[Len(calls)].ok
    /\ pc = "done"

\* C7: whenever the heap allocator is active the heap range was reserved and
\* mapped before; a run that returns an error from steps 1 to 4 never activates
\* the heap allocator.
C7_HeapActiveOnlyAfterMapping ==
    /\ heap.active =>
          /\ Succeeded(StepOrder[3])
          /\ Succeeded(StepOrder[4])
          /\ own["heap_mapped_pages"] \in {"owned", "moved"}
          /\ heap.start = val.heap_mapped_pages.start
          /\ heap.size = val.heap_mapped_pages.size
    /\ (ErrReturned /\ FailedStep \in { StepOrder[i] : i \in 1..4 }) => ~heap.active

C7_Witness ==
    /\ heap.active
    /\ pc = "end_block"
    /\ "heap" \in mapped

\* C8: the frame allocator lock taken for the heap mapping is released whether
\* the mapping fails or succeeds: the orchestrator does not hold it in any state
\* in which init_memory_management has returned.
C8_LockReleasedOnReturn ==
    result.returned =>
        /\ lock # "orchestrator"
        /\ own["allocator"] \in {"none", "dropped"}

C8_Witness ==
    /\ ErrReturned
    /\ FailedStep = StepOrder[4]
    /\ own["allocator"] = "dropped"
    /\ lock = "free"

\* C9: the orchestrator holds the frame allocator lock only during the heap
\* mapping: not during step 1, stack construction, heap reservation, the
\* activation of the heap allocator or the finalizer.
C9_LockOnlyDuringMapping ==
    lock = "orchestrator" => pc = "map"

\* C10: the orchestrator never unmaps the identity regions of step 1: a failure
\* at step 2, 3 or 4 forgets them, otherwise they are moved, as memory::init
\* returned them, to the finalizer, and the list the finalizer hands back is
\* what the caller receives; no path drops them.
C10_IdentityNeverDroppedByOrchestrator ==
    /\ own["identity_mapped_pages"] # "dropped"
    /\ own["identity_mapped_pages_out"] # "dropped"
    /\ EarlyFailure =>
          /\ own["identity_mapped_pages"] = "forgotten"
          /\ val.identity_mapped_pages \subseteq mapped
    /\ (result.returned /\ ~EarlyFailure /\ FailedStep # StepOrder[1]) =>
          own["identity_mapped_pages"] = "moved"
    /\ (result.returned /\ result.ok) =>
          /\ own["identity_mapped_pages_out"] = "returned"
          /\ result.bundle.identity_mapped_pages = val.identity_mapped_pages_out
          /\ val.identity_mapped_pages_out \subseteq mapped

C10_Witness ==
    /\ ErrReturned
    /\ FailedStep = StepOrder[2]
    /\ val.identity_mapped_pages = IdentityRegions
    /\ own["identity_mapped_pages"] = "forgotten"
    /\ IdentityRegions \subseteq mapped

\* C11: the heap is reserved at KERNEL_HEAP_START for KERNEL_HEAP_INITIAL_SIZE
\* bytes, and the allocator is activated with that same start and size, whatever
\* the Boot Information and whatever the earlier steps returned.
C11_HeapUsesConfiguredConstants ==
    /\ \A i \in 1..Len(calls) :
          calls[i].fn \in { StepOrder[3], StepOrder[5] } =>
              calls[i].args = <<KERNEL_HEAP_START, KERNEL_HEAP_INITIAL_SIZE>>
    /\ heap.active =>
          /\ heap.start = KERNEL_HEAP_START
          /\ heap.size = KERNEL_HEAP_INITIAL_SIZE

C11_Witness ==
    /\ heap.active
    /\ boot_info = NumBootInfos
    /\ Len(val.stack_pages) = MaxStackPages
    /\ calls[3].args = calls[5].args
    /\ result.returned

C13_StackPagesForgottenOnStackFailure ==
    (ErrReturned /\ FailedStep = StepOrder[2]) =>
        /\ \A h \in { "stack_pages", "text_mapped_pages", "rodata_mapped_pages",
                      "data_mapped_pages", "higher_half_mapped_pages",
                      "identity_mapped_pages" } :
              own[h] = "forgotten"
        /\ own["stack_guard_page"] = "dropped"
        /\ own["stack"] = "none"
        /\ "stack" \in mapped

C13_Witness ==
    /\ ErrReturned
    /\ FailedStep = StepOrder[2]
    /\ own["stack_pages"] = "forgotten"
    /\ own["stack_guard_page"] = "dropped"
    /\ "stack" \in mapped

\* what C14 says of every state
C14_PageTableDisposition ==
    /\ own["page_table"] # "forgotten"
    /\ EarlyFailure => own["page_table"] = "dropped"
    /\ own["page_table"] = "moved" <=> Len(calls) = Len(StepOrder)
    /\ own["page_table"] = "moved" => \A i \in 1..5 : Succeeded(StepOrder[i])
    /\ (result.returned /\ \A i \in 1..5 : Succeeded(StepOrder[i])) =>
          own["page_table"] = "moved"

\* C14: on a failure at step 2, 3 or 4 the page table of step 1 is not forgotten
\* but dropped; it is handed to the finalizer in exactly the runs in which steps
\* 1 to 5 succeeded, and once handed over it is never touched again.
C14_PageTableReleasedOrHandedOver ==
    /\ []C14_PageTableDisposition
    /\ [][own["page_table"] = "moved" => own'["page_table"] = "moved"]_vars

C14_Witness ==
    /\ ErrReturned
    /\ FailedStep = StepOrder[4]
    /\ own["page_table"] = "dropped"

\* C15: every invocation ends with the success bundle or an error, provided
\* the callees return and the frame allocator lock is free for the orchestrator
\* to take: no state loops or waits forever, and a lock taken by the
\* orchestrator is released again.
C15_Terminates ==
    /\ <>(pc = "done" /\ result.returned)
    /\ (lock = "orchestrator") ~> (lock # "orchestrator")

C15_Witness ==
    /\ pc = "done"
    /\ result.returned
    /\ result.ok
    /\ own["allocator"] = "dropped"
    /\ lock = "other"

\* a call of op has returned and its caller has not gone on yet
Returned(op) == rtc_pc = "ret" /\ rtc_local.op = op

\* C16: read_register(r) outputs the BCD-decoded value of register r, the
\* register it selected, under every interleaving with handle_rtc_interrupt:
\* the selection is not changed between its select and its read.
C16_ReadRegisterReadsSelected ==
    Returned("read_register") =>
        /\ rtc_local.read_index = rtc_local.register
        /\ rtc_local.out = (cmos[rtc_local.register] \div 16) * 10
                             + (cmos[rtc_local.register] % 16)

\* C17: after n completed invocations of handle_rtc_interrupt, in any
\* interleaving, RTC_TICKS is n (each invocation adds exactly 1), and the
\* heartbeat was logged once for every multiple of 128 reached.
C17_RtcTicksCountsInterrupts ==
    /\ RTC_TICKS = irq_done
    /\ heartbeats = irq_done \div 128

\* C18: change_rtc_frequency(rate), for every rate it accepts, writes back a
\* byte whose top 4 bits are those of the byte read from register A and whose
\* bottom 4 bits are rate.
C18_FrequencyKeepsTopBits ==
    Returned("change_rtc_frequency") =>
        /\ rtc_local.written \div 16 = rtc_local.prev \div 16
        /\ rtc_local.written % 16 = rtc_local.rate

\* between disable_interrupts() and enable_interrupts() of the two setters
InSetterSequence ==
    rtc_pc \in { "en_select_c", "en_read_c", "en_select_b", "en_read_b",
                 "en_select_b2", "en_write", "en_enable",
                 "cf_select_a", "cf_read_a", "cf_select_a2", "cf_write",
                 "cf_enable" }

\* C19: enable_rtc_interrupt and change_rtc_frequency keep interrupts disabled
\* during their whole register sequence, so the handler does not run inside it;
\* they return with interrupts enabled whatever the flag was at the call; and
\* enable_rtc_interrupt writes register B back with bit 6 set and every other
\* bit as it read it.
C19_SettersRunWithInterruptsOff ==
    /\ InSetterSequence => (~interrupts_enabled /\ irq_pc = "idle")
    /\ (Returned("enable_rtc_interrupt") \/ Returned("change_rtc_frequency")) =>
          interrupts_enabled
    /\ Returned("enable_rtc_interrupt") =>
          /\ rtc_local.read_index = 11
          /\ rtc_local.written_index = 11
          /\ Bit(rtc_local.written, 6) = 1
          /\ \A k \in (0..7) \ {6} : Bit(rtc_local.written, k) = Bit(rtc_local.prev, k)
          /\ cmos[11] = rtc_local.written

C19_Witness ==
    /\ Returned("enable_rtc_interrupt")
    /\ ~rtc_local.if_at_call
    /\ interrupts_enabled
    /\ rtc_local.prev = 2
    /\ cmos[11] = 66
    /\ irq_done > 0

----------------------------------------------------------------------------

====
